---- MODULE Spec2Model ----
(***************************************************************************)
(* BrowserManager (packages/core/src/agents/browser): the isolated MCP     *)
(* client of the browser agent, its connect / discover / callTool / close  *)
(* lifecycle, and the McpToolInvocation.execute wrapper around callTool.   *)
(*                                                                         *)
(* Every async method is cut at its awaits: one action is the synchronous  *)
(* run of the code from one await to the next.  The MCP SDK Client and the *)
(* StdioClientTransport are the environment: a handshake, a listTools, a   *)
(* tool call and a close each end in success or failure, chosen by the     *)
(* environment.  Closing the transport is what terminates the subprocess   *)
(* (comment at browserAgentDefinition.ts:347).                             *)
(***************************************************************************)
EXTENDS Integers, Sequences, FiniteSets, TLC

\* Number of concurrent callers (async call chains) using one BrowserManager.
NumProcs == 2

\* Number of Client/StdioClientTransport pairs one manager may create.
MaxConn == 3

Procs == 1..NumProcs
Conns == 1..MaxConn

\* The tools/list response of the subprocess (names only).
ServerTools == <<"click", "fill">>

VARIABLES
  rawMcpClient,     \* BrowserManager.rawMcpClient: 0 = undefined, else a Client
  mcpTransport,     \* BrowserManager.mcpTransport: 0 = undefined, else a transport
  discoveredTools,  \* BrowserManager.discoveredTools
  numConn,          \* Client/transport pairs constructed so far (subprocess spawns)
  clientState,      \* per Client: "none", "connecting", "connected", "failed", "closed"
  transportState,   \* per transport: "none", "running", "closing", "closed"
  clientCloses,     \* per Client: close() calls made on it (counted up to 2)
  transportCloses,  \* per transport: close() calls made on it (counted up to 2)
  proc,             \* per caller: the operation in progress and its locals
  closeDone,        \* history: some close() has completed
  mcpTools,         \* createMcpDeclarativeTools: the descriptors it was given
  declTools,        \* createMcpDeclarativeTools: the tools it returned
  rawResponse,      \* execute: the response client.callTool resolved with
  callResult,       \* execute: what callTool returned, <<>> before it has
  toolResult,       \* execute: the ToolResult returned, <<>> before it has
  created,          \* per manager: what createBrowserAgentDefinition returned
  sent,             \* per manager: tools/call requests sent on its Client
  invoked,          \* per wrapped tool object: times execute ran on it
  cleaned,          \* managers cleanupBrowserAgent has been called on
  sharedRegistry,   \* tool names in the main agent's ToolRegistry
  confirmation,     \* the last shouldConfirmExecute call and what it returned
  launches,         \* connectMcp: the configurations read and the args built
  state,            \* FooterConfigDialog: the state of footerConfigReducer
  searchQuery       \* FooterConfigDialog: the search query of the fuzzy list

vars == <<rawMcpClient, mcpTransport, discoveredTools, numConn, clientState,
          transportState, clientCloses, transportCloses, proc,
          closeDone, mcpTools, declTools, rawResponse, callResult,
          toolResult, created, sent, invoked, cleaned, sharedRegistry,
          confirmation, launches, state, searchQuery>>

\* The variables of the data path (wrapping descriptors, turning a response
\* into a result); the lifecycle steps leave them alone.
dataVars == <<mcpTools, declTools, rawResponse, callResult, toolResult>>

\* The variables of the view with several managers, each built by its own
\* call of createBrowserAgentDefinition.
bridgeVars == <<created, sent, invoked, cleaned, sharedRegistry, confirmation>>

\* Managers built side by side, and how often one wrapped tool is run.
NumManagers == 2
MaxCalls == 2
Managers == 1..NumManagers

\* The variables of the footer configuration dialog.
footerVars == <<state, searchQuery>>

mgrVars == <<rawMcpClient, mcpTransport, discoveredTools>>
libVars == <<numConn, clientState, transportState, clientCloses, transportCloses>>
histVars == <<closeDone>>

\* The variables of the lifecycle of one manager and its callers.
lifeVars == <<mgrVars, libVars, histVars, proc>>

(* A caller's locals.  op: the public method running; pc: the await it is   *)
(* suspended at; cl: the Client or transport the pending await is on; sig:  *)
(* the AbortSignal ("none" = no signal passed, "clear", "aborted" = aborted *)
(* at call time, "firedBefore"/"firedAfter" = aborted after the call, before*)
(* or after the remote call settled); cp: callPromise; winner: the         *)
(* settlement of the awaited promise (callPromise or the race); lst: the   *)
(* abort listener is registered; result: what the method returned; got:    *)
(* the catalog getDiscoveredTools returned; cerr: a close step failed;     *)
(* timeout: the timeout option the request was sent with, 0 before.         *)
IdleProc ==
  [op |-> "none", pc |-> "idle", cl |-> 0, sig |-> "none", cp |-> "none",
   winner |-> "pending", lst |-> FALSE, result |-> "none", got |-> <<>>,
   cerr |-> FALSE, timeout |-> 0]

\* Number of entries of ALL_ITEMS taken (footerItems.ts:9-60 has ten).
NumItems == 3

\* Longest ui.footer.items setting taken.
MaxSettingsItems == 2

AllItemIds ==
  <<"cwd", "git-branch", "sandbox-status", "model-name", "context-remaining",
    "quota", "memory-usage", "session-id", "code-changes", "token-count">>

\* DEFAULT_ORDER (64-75) and VALID_IDS (114), cut to the entries taken.
DEFAULT_ORDER == SubSeq(AllItemIds, 1, NumItems)
VALID_IDS == {DEFAULT_ORDER[i] : i \in 1..NumItems}

\* The values of settings.ui.footer.items: lists of ids, which a settings
\* file may repeat, and which may name an id that is not a footer item.
\* A list derived from the legacy settings (77-112) is one of them.
FooterItemsSettings == UNION {[1..m -> VALID_IDS \cup {"unknown"}] : m \in 0..MaxSettingsItems}

\* resolveFooterState (120-132).
resolveFooterState(items) ==
  LET source == SelectSeq(items, LAMBDA id : id \in VALID_IDS)
      others == SelectSeq(DEFAULT_ORDER,
                          LAMBDA id : \A i \in DOMAIN source : source[i] # id)
  IN  [orderedIds |-> source \o others,
       selectedIds |-> {source[i] : i \in DOMAIN source}]

\* The initializer of useReducer (271-275), and the dialog's empty search.
InitDialog(items) ==
  /\ state = [orderedIds |-> resolveFooterState(items).orderedIds,
              selectedIds |-> resolveFooterState(items).selectedIds,
              activeIndex |-> 0,
              scrollOffset |-> 0]
  /\ searchQuery = ""

InitManager ==
  /\ rawMcpClient = 0
  /\ mcpTransport = 0
  /\ discoveredTools = <<>>
  /\ numConn = 0
  /\ clientState = [k \in Conns |-> "none"]
  /\ transportState = [k \in Conns |-> "none"]
  /\ clientCloses = [k \in Conns |-> 0]
  /\ transportCloses = [k \in Conns |-> 0]
  /\ proc = [p \in Procs |-> IdleProc]
  /\ closeDone = FALSE
  /\ mcpTools = <<>>
  /\ declTools = <<>>
  /\ callResult = <<>>
  /\ toolResult = <<>>
  /\ created = [m \in Managers |-> <<>>]
  /\ sent = [m \in Managers |-> 0]
  /\ invoked = [o \in 1..(NumManagers * Len(ServerTools)) |-> 0]
  /\ cleaned = {}
  /\ sharedRegistry = {"read_file", "delegate_to_agent"}
  /\ confirmation = <<>>
  /\ launches = <<>>

\* A response with neither content nor error flag.
EmptyResponse == [content |-> <<>>, isError |-> "undefined"]

Init == InitManager /\ rawResponse = EmptyResponse /\ InitDialog(<<>>)

\* The dialog opened on any footer setting.
InitFooter ==
  /\ InitManager
  /\ rawResponse = EmptyResponse
  /\ \E items \in FooterItemsSettings : InitDialog(items)

\* ------------------------------------------------------------------------
\* Helpers

SetProc(p, r) == proc' = [proc EXCEPT ![p] = r]

\* A rejection of ensureConnection/getDiscoveredTools is "err"; execute()
\* turns a rejection of callTool into an error-carrying result
\* (mcpToolWrapper.ts:94-102).
\* createBrowserAgentDefinition awaits ensureConnection without a catch
\* (browserAgentFactory.ts:55): a rejection is its own.
AwaitedEnsureCaught(outcome) == "ok"
AwaitedEnsure(outcome) == outcome

FailResultRethrown(o) == "err"
FailResult(o) ==
  IF o = "call" THEN "Failure"
  ELSE IF o = "create" THEN AwaitedEnsure("err")
  ELSE "err"

Bump(n) == IF n < 2 THEN n + 1 ELSE 2

\* `if (this.rawMcpClient) return` at ensureConnection:323 and
\* getRawMcpClient:225: a connect is started only when no Client is held.
NeedsConnectAlways(raw) == TRUE
NeedsConnect(raw) == raw = 0

\* connectMcp up to its first await (373-418): constructs the Client and the
\* transport, stores both in the manager, and starts connect(), which spawns
\* the subprocess.
ConnectMcp(p, o, s) ==
  /\ numConn < MaxConn
  /\ LET k == numConn + 1 IN
       /\ numConn' = k
       /\ rawMcpClient' = k
       /\ mcpTransport' = k
       /\ clientState' = [clientState EXCEPT ![k] = "connecting"]
       /\ transportState' = [transportState EXCEPT ![k] = "running"]
       /\ SetProc(p, [IdleProc EXCEPT !.op = o, !.pc = "awaitConnect",
                                      !.cl = k, !.sig = s])
  /\ UNCHANGED <<discoveredTools, clientCloses, transportCloses, histVars>>

\* ------------------------------------------------------------------------
\* ensureConnection (322-327)

EnsureConnection(p) ==
  /\ proc[p].pc = "idle"
  /\ IF NeedsConnect(rawMcpClient)
       THEN ConnectMcp(p, "ensure", "none")
       ELSE /\ SetProc(p, [IdleProc EXCEPT !.op = "ensure", !.pc = "done",
                                           !.result = "ok"])
            /\ UNCHANGED <<mgrVars, libVars, histVars>>

\* The code after a successful connect and discovery, per calling method:
\* ensureConnection returns; getDiscoveredTools goes on to read the catalog;
\* getRawMcpClient re-reads this.rawMcpClient (229-232).
AfterEnsure(r, raw) ==
  CASE r.op = "ensure" -> [r EXCEPT !.pc = "done", !.result = "ok"]
    [] r.op = "tools"  -> [r EXCEPT !.pc = "ensured"]
    [] r.op = "create" -> [r EXCEPT !.pc = "connected"]
    [] OTHER           ->
         IF raw = 0
           THEN [r EXCEPT !.pc = "done", !.result = FailResult(r.op)]
           ELSE [r EXCEPT !.pc = "gotClient", !.cl = raw]

\* connect() resolves; connectMcp goes on into discoverTools (422, 428-433):
\* it throws when the manager holds no Client, otherwise it sends listTools
\* on the Client the manager holds now.
ConnectResolved(p) ==
  /\ proc[p].pc = "awaitConnect"
  /\ clientState[proc[p].cl] = "connecting"
  /\ clientState' = [clientState EXCEPT ![proc[p].cl] = "connected"]
  /\ IF rawMcpClient = 0
       THEN SetProc(p, [proc[p] EXCEPT !.pc = "done",
                                       !.result = FailResult(proc[p].op)])
       ELSE SetProc(p, [proc[p] EXCEPT !.pc = "awaitList", !.cl = rawMcpClient])
  /\ UNCHANGED <<mgrVars, numConn, transportState, clientCloses,
                 transportCloses, histVars>>

\* connect() rejects: the handshake failed, or the Client was closed under
\* it.  The subprocess may or may not be left running by the library.
ConnectRejected(p, left) ==
  /\ proc[p].pc = "awaitConnect"
  /\ clientState[proc[p].cl] \in {"connecting", "closed"}
  /\ LET k == proc[p].cl IN
       /\ clientState' = [clientState EXCEPT
            ![k] = IF @ = "connecting" THEN "failed" ELSE @]
       /\ transportState' = [transportState EXCEPT
            ![k] = IF @ = "running" /\ ~left THEN "closed" ELSE @]
  /\ SetProc(p, [proc[p] EXCEPT !.pc = "done", !.result = FailResult(proc[p].op)])
  /\ UNCHANGED <<mgrVars, numConn, clientCloses, transportCloses, closeDone>>

\* listTools resolves: discoverTools stores the response (434).
ListToolsResolved(p) ==
  /\ proc[p].pc = "awaitList"
  /\ clientState[proc[p].cl] = "connected"
  /\ discoveredTools' = ServerTools
  /\ SetProc(p, AfterEnsure(proc[p], rawMcpClient))
  /\ UNCHANGED <<rawMcpClient, mcpTransport, libVars, histVars>>

\* listTools rejects (a discovery failure, or a Client that is not connected).
ListToolsRejected(p) ==
  /\ proc[p].pc = "awaitList"
  /\ SetProc(p, [proc[p] EXCEPT !.pc = "done", !.result = FailResult(proc[p].op)])
  /\ UNCHANGED <<mgrVars, libVars, closeDone>>

\* ------------------------------------------------------------------------
\* getDiscoveredTools (239-242)

GetDiscoveredTools(p) ==
  /\ proc[p].pc = "idle"
  /\ IF NeedsConnect(rawMcpClient)
       THEN ConnectMcp(p, "tools", "none")
       ELSE /\ SetProc(p, [IdleProc EXCEPT !.op = "tools", !.pc = "ensured"])
            /\ UNCHANGED <<mgrVars, libVars, histVars>>

GetDiscoveredToolsReturn(p) ==
  /\ proc[p].pc = "ensured"
  /\ SetProc(p, [proc[p] EXCEPT !.pc = "done", !.result = "ok",
                                !.got = discoveredTools])
  /\ UNCHANGED <<mgrVars, libVars, histVars>>

\* ------------------------------------------------------------------------
\* callTool (252-290), called by McpToolInvocation.execute (64-103)

IsAborted(s) == s \in {"aborted", "firedBefore", "firedAfter"}

\* `if (signal?.aborted) throw ...` (257-259).
RejectsAtEntryNever(s) == FALSE
RejectsAtEntry(s) == IsAborted(s)

\* Promise.race (276-283) and a plain await (270): the first settlement is
\* the result, a later one is ignored.
RaceSettleLast(w, x) == x
RaceSettle(w, x) == IF w = "pending" THEN x ELSE w

\* What the caller gets for a settlement: execute() maps a resolved call
\* to a result, with error set when isError is true (82-93), and a rejection
\* to an error result (94-102); the rejection raised by the abort listener
\* (279-280) is the cancellation.
Outcome(w) ==
  CASE w = "ok"        -> "Success"
    [] w = "cancelled" -> "Cancelled"
    [] OTHER           -> "Failure"

\* callTool up to its first await: the entry check of the signal, then
\* getRawMcpClient (224-228), which returns the Client held or connects.
CallTool(p, s) ==
  /\ proc[p].pc = "idle"
  /\ IF RejectsAtEntry(s)
       THEN /\ SetProc(p, [IdleProc EXCEPT !.op = "call", !.pc = "done",
                                           !.sig = s, !.result = "Cancelled"])
            /\ UNCHANGED <<mgrVars, libVars, histVars>>
       ELSE IF NeedsConnect(rawMcpClient)
         THEN ConnectMcp(p, "call", s)
         ELSE /\ SetProc(p, [IdleProc EXCEPT !.op = "call", !.pc = "gotClient",
                                             !.sig = s, !.cl = rawMcpClient])
              /\ UNCHANGED <<mgrVars, libVars, histVars>>

\* client.callTool is issued (262-266); without a signal it is awaited
\* directly (269-271), with one the abort listener is registered and the
\* race awaited (276-283).  A listener added to a signal that has already
\* fired is never run.
\* Default timeout for MCP operations (180).
MCP_TIMEOUT_MS == 60000

\* The timeout option of client.callTool (262-266), set before the code
\* looks at the signal (269).
CallTimeoutWithoutSignal(sig) == IF sig = "none" THEN MCP_TIMEOUT_MS ELSE 0
CallTimeout(sig) == MCP_TIMEOUT_MS

\* callTool sends its request as soon as it has the Client (261-266): the
\* manager keeps no queue and no lock, requests of other callers that are
\* still pending do not hold it back.
MayIssueSerialized(p) == \A q \in Procs \ {p} : proc[q].cp # "pending"
MayIssue(p) == TRUE

CallIssue(p) ==
  /\ proc[p].pc = "gotClient"
  /\ MayIssue(p)
  /\ SetProc(p, [proc[p] EXCEPT
       !.cp = "pending",
       !.timeout = CallTimeout(proc[p].sig),
       !.pc = IF proc[p].sig = "none" THEN "awaitCall" ELSE "awaitRace",
       !.lst = (proc[p].sig # "none")])
  /\ UNCHANGED <<mgrVars, libVars, histVars>>

\* What a settlement of callPromise does to the promise callTool awaits:
\* callPromise itself without a signal (270), and with one the race, of
\* which callPromise is the first member (276-277).
AwaitedSettleAbortOnly(sig, w, x) == IF sig = "none" THEN RaceSettle(w, x) ELSE w
AwaitedSettle(sig, w, x) == RaceSettle(w, x)

\* The remote call settles: an answer, an answer with isError, a timeout
\* after the time the request was given, or another rejection (transport
\* error, Client not connected).  Only a connected Client answers.
RemoteAnswer(p, ans) ==
  /\ proc[p].cp = "pending"
  /\ ans \in {"ok", "remoteErr"} => clientState[proc[p].cl] = "connected"
  /\ ans = "timeout" => proc[p].timeout > 0
  /\ SetProc(p, [proc[p] EXCEPT !.cp = ans,
                                !.winner = AwaitedSettle(proc[p].sig, @, ans)])
  /\ UNCHANGED <<mgrVars, libVars, histVars>>

\* The AbortSignal fires while the call is in progress; a registered
\* listener rejects the race (279-281, once: true).
AbortFires(p) ==
  /\ proc[p].sig = "clear"
  /\ proc[p].pc \notin {"idle", "done"}
  /\ SetProc(p, [proc[p] EXCEPT
       !.sig = IF proc[p].cp \in {"none", "pending"}
                 THEN "firedBefore" ELSE "firedAfter",
       !.winner = IF proc[p].lst THEN RaceSettle(@, "cancelled") ELSE @,
       !.lst = FALSE])
  /\ UNCHANGED <<mgrVars, libVars, histVars>>

\* The await returns: finally removes the listener (285-289), the result
\* goes to the caller through toResult and execute.
\* `finally { if (onAbort) signal.removeEventListener('abort', onAbort) }`
\* (285-289): whether the listener is still on the signal afterwards.
AfterFinallyKept(registered) == registered
AfterFinally(registered) == FALSE

CallResume(p) ==
  /\ proc[p].pc \in {"awaitCall", "awaitRace"}
  /\ proc[p].winner # "pending"
  /\ SetProc(p, [proc[p] EXCEPT !.pc = "done", !.lst = AfterFinally(@),
                                !.result = Outcome(proc[p].winner)])
  /\ UNCHANGED <<mgrVars, libVars, histVars>>

\* ------------------------------------------------------------------------
\* close (334-360)

\* `this.rawMcpClient = undefined` (344) and `this.mcpTransport = undefined`
\* (356): the field is cleared once its object has been closed.
\* cleanupBrowserAgent (browserAgentFactory.ts:86-97): `await close()` inside
\* try/catch; a rejection is logged (92-96) and the function returns.
CleanupOutcomeRethrown(closeOutcome) ==
  IF closeOutcome = "rejected" THEN "err" ELSE "ok"
CleanupOutcome(closeOutcome) == "ok"

\* What the caller of close() gets when close() has resolved: close()
\* itself returns, cleanupBrowserAgent goes on to line 91.
CloseReturn(o) == IF o = "cleanup" THEN CleanupOutcome("resolved") ELSE "ok"

ClearedFieldKept(x) == x
ClearedField(x) == 0

\* Lines 347-359, entered with the value rawMcpClient has by then: close
\* the transport the manager holds and wait, or finish at once.
CloseTransportPart(p, r, raw) ==
  /\ rawMcpClient' = raw
  /\ UNCHANGED <<numConn, clientState, clientCloses>>
  /\ IF mcpTransport # 0
       THEN /\ transportState' = [transportState EXCEPT
                 ![mcpTransport] = IF @ = "running" THEN "closing" ELSE @]
            /\ transportCloses' = [transportCloses EXCEPT
                 ![mcpTransport] = Bump(@)]
            /\ SetProc(p, [r EXCEPT !.pc = "awaitTransportClose",
                                    !.cl = mcpTransport])
            /\ UNCHANGED <<mcpTransport, discoveredTools, closeDone>>
       ELSE /\ discoveredTools' = <<>>
            /\ closeDone' = TRUE
            /\ SetProc(p, [r EXCEPT !.pc = "done", !.result = CloseReturn(r.op)])
            /\ UNCHANGED <<mcpTransport, transportState, transportCloses>>

CloseAs(p, o) ==
  /\ proc[p].pc = "idle"
  /\ IF rawMcpClient # 0
       THEN /\ clientState' = [clientState EXCEPT ![rawMcpClient] = "closed"]
            /\ clientCloses' = [clientCloses EXCEPT ![rawMcpClient] = Bump(@)]
            /\ SetProc(p, [IdleProc EXCEPT !.op = o,
                                           !.pc = "awaitClientClose",
                                           !.cl = rawMcpClient])
            /\ UNCHANGED <<mgrVars, numConn, transportState, transportCloses,
                           closeDone>>
       ELSE CloseTransportPart(p, [IdleProc EXCEPT !.op = o], rawMcpClient)

Close(p) == CloseAs(p, "close")

\* cleanupBrowserAgent(browserManager) up to the first await of close().
CleanupBrowserAgent(p) == CloseAs(p, "cleanup")

\* cleanupBrowserAgent on a manager object whose close() rejects
\* (browserAgentFactory.test.ts:140-147): the catch block logs, nothing of
\* this manager is touched.
CleanupBrowserAgentRejecting(p) ==
  /\ proc[p].pc = "idle"
  /\ SetProc(p, [IdleProc EXCEPT !.op = "cleanup", !.pc = "done",
                                 !.result = CleanupOutcome("rejected"),
                                 !.cerr = TRUE])
  /\ UNCHANGED <<mgrVars, libVars, histVars>>

\* rawMcpClient.close() settles; an error is logged (339-343); the field is
\* cleared (344) and the transport part runs.
ClientCloseSettled(p, err) ==
  /\ proc[p].pc = "awaitClientClose"
  /\ CloseTransportPart(p, [proc[p] EXCEPT !.cerr = err],
                        ClearedField(rawMcpClient))

\* mcpTransport.close() settles; an error is logged (351-355); the field
\* and the catalog are cleared (356, 359).
TransportCloseSettled(p, err) ==
  /\ proc[p].pc = "awaitTransportClose"
  /\ transportState' = [transportState EXCEPT
       ![proc[p].cl] = IF err THEN @ ELSE "closed"]
  /\ mcpTransport' = ClearedField(mcpTransport)
  /\ discoveredTools' = <<>>
  /\ closeDone' = TRUE
  /\ SetProc(p, [proc[p] EXCEPT !.pc = "done",
                                !.result = CloseReturn(proc[p].op),
                                !.cerr = (proc[p].cerr \/ err)])
  /\ UNCHANGED <<rawMcpClient, numConn, clientState, clientCloses,
                 transportCloses>>

\* ------------------------------------------------------------------------

\* The caller takes the result and is free to call again.
Reset(p) ==
  /\ proc[p].pc = "done"
  /\ proc[p].cp # "pending"
  /\ SetProc(p, IdleProc)
  /\ UNCHANGED <<mgrVars, libVars, histVars>>

\* The steps of ensureConnection, getDiscoveredTools and callTool.
CallerStep(p) ==
  \/ EnsureConnection(p)
  \/ GetDiscoveredTools(p)
  \/ \E s \in {"none", "clear", "aborted"} : CallTool(p, s)
  \/ ConnectResolved(p)
  \/ \E left \in BOOLEAN : ConnectRejected(p, left)
  \/ ListToolsResolved(p)
  \/ ListToolsRejected(p)
  \/ GetDiscoveredToolsReturn(p)
  \/ CallIssue(p)
  \/ \E ans \in {"ok", "remoteErr", "rejected", "timeout"} : RemoteAnswer(p, ans)
  \/ AbortFires(p)
  \/ CallResume(p)
  \/ Reset(p)

\* The steps of close.
CloseStep(p) ==
  \/ Close(p)
  \/ \E err \in BOOLEAN : ClientCloseSettled(p, err)
  \/ \E err \in BOOLEAN : TransportCloseSettled(p, err)

Next ==
  /\ \E p \in Procs : CallerStep(p) \/ CloseStep(p)
  /\ UNCHANGED <<dataVars, bridgeVars, launches, footerVars>>

Spec == Init /\ [][Next]_vars

\* One manager on which close() is never called.
NextNoClose ==
  /\ \E p \in Procs : CallerStep(p)
  /\ UNCHANGED <<dataVars, bridgeVars, launches, footerVars>>

SpecNoClose == Init /\ [][NextNoClose]_vars

\* One manager used by a single caller that awaits every call before it
\* makes the next one.
NextSeq ==
  /\ CallerStep(1) \/ CloseStep(1)
  /\ UNCHANGED <<dataVars, bridgeVars, launches, footerVars>>

SpecSeq == Init /\ [][NextSeq]_vars

\* One caller that also tears down through cleanupBrowserAgent.
NextCleanup ==
  /\ \/ CallerStep(1)
     \/ CloseStep(1)
     \/ CleanupBrowserAgent(1)
     \/ CleanupBrowserAgentRejecting(1)
  /\ UNCHANGED <<dataVars, bridgeVars, launches, footerVars>>

SpecCleanup == Init /\ [][NextCleanup]_vars

\* One caller that dispatches invocations while another caller connects
\* and closes the same manager.
NextLive ==
  /\ \/ CallerStep(1)
     \/ EnsureConnection(2)
     \/ ConnectResolved(2)
     \/ \E left \in BOOLEAN : ConnectRejected(2, left)
     \/ ListToolsResolved(2)
     \/ ListToolsRejected(2)
     \/ CloseStep(2)
     \/ Reset(2)
  /\ UNCHANGED <<dataVars, bridgeVars, launches, footerVars>>

\* The remote side settles every request it was sent: the handshake
\* (418), listTools (433) and callTool, which carries its timeout (262-266).
RemoteSettles(p) ==
  /\ \/ ConnectResolved(p)
     \/ \E left \in BOOLEAN : ConnectRejected(p, left)
     \/ ListToolsResolved(p)
     \/ ListToolsRejected(p)
     \/ \E ans \in {"ok", "remoteErr", "rejected", "timeout"} : RemoteAnswer(p, ans)
  /\ UNCHANGED <<dataVars, bridgeVars, launches, footerVars>>

\* The event loop runs the continuation of an await whose promise has
\* settled, and the code that follows getRawMcpClient (261-266).
Continues(p) ==
  /\ CallIssue(p) \/ CallResume(p)
  /\ UNCHANGED <<dataVars, bridgeVars, launches, footerVars>>

SpecLive ==
  /\ Init
  /\ [][NextLive]_vars
  /\ \A p \in Procs : WF_vars(RemoteSettles(p)) /\ WF_vars(Continues(p))

\* ------------------------------------------------------------------------
\* createBrowserAgentDefinition on the manager it constructs
\* (browserAgentFactory.ts:41-79)

\* The caller that runs the factory and keeps what it returns, and the
\* caller that uses the returned tools and manager.
Factory == 1
User == 2

\* The manager is as its constructor left it and nobody uses it.
Fresh ==
  /\ numConn = 0
  /\ rawMcpClient = 0
  /\ mcpTransport = 0
  /\ ~closeDone
  /\ \A q \in Procs : proc[q] = IdleProc

\* `new BrowserManager(config)` and `await browserManager.ensureConnection()`
\* (54-55) up to the first await.
CreateBrowserAgentDefinition(p) ==
  /\ Fresh
  /\ IF NeedsConnect(rawMcpClient)
       THEN ConnectMcp(p, "create", "none")
       ELSE /\ SetProc(p, [IdleProc EXCEPT !.op = "create", !.pc = "connected"])
            /\ UNCHANGED <<mgrVars, libVars, histVars>>

\* createMcpDeclarativeTools (63) and the return (70-78): getDiscoveredTools
\* finds the Client set and returns the catalog (239-242), one tool is made
\* per entry.
CreateReturn(p) ==
  /\ proc[p].op = "create"
  /\ proc[p].pc = "connected"
  /\ ~NeedsConnect(rawMcpClient)
  /\ SetProc(p, [proc[p] EXCEPT !.pc = "done", !.result = "ok",
                                !.got = discoveredTools])
  /\ UNCHANGED <<mgrVars, libVars, histVars>>

\* The factory has returned a definition and its manager.
Created ==
  /\ proc[Factory].op = "create"
  /\ proc[Factory].pc = "done"
  /\ proc[Factory].result = "ok"

NextFactory ==
  /\ \/ CreateBrowserAgentDefinition(Factory)
     \/ ConnectResolved(Factory)
     \/ \E left \in BOOLEAN : ConnectRejected(Factory, left)
     \/ ListToolsResolved(Factory)
     \/ ListToolsRejected(Factory)
     \/ CreateReturn(Factory)
     \/ /\ Created
        /\ \/ CallerStep(User)
           \/ CloseStep(User)
           \/ CleanupBrowserAgent(User)
  /\ UNCHANGED <<dataVars, bridgeVars, launches, footerVars>>

SpecFactory == Init /\ [][NextFactory]_vars

\* ------------------------------------------------------------------------
\* createMcpDeclarativeTools (mcpToolWrapper.ts:156-195)

\* Longest discovery response wrapped.
MaxTools == 2

\* An optional field is <<>> when absent and <<v>> when it holds v.
Opt(S) == {<<>>} \cup {<<v>> : v \in S}

\* Sequences over S of length at most n.
SeqUpTo(S, n) == UNION {[1..m -> S] : m \in 0..n}

\* `x ?? d` (172, 189, 190).
Nullish(x, d) == IF x = <<>> THEN d ELSE x[1]

\* A schema some tool declares, and the schema used when none is declared
\* (190-193).
ClickSchema == [type |-> "object", properties |-> {"uid"}, required |-> {"uid"}]
EmptyObjectSchema == [type |-> "object", properties |-> {}]

\* The descriptors a tools/list response may hold (McpTool).
Descriptors ==
  [name : {"click", "fill"},
   description : Opt({"", "Click element"}),
   inputSchema : Opt({ClickSchema})]

\* convertMcpToolToFunctionDeclaration (182-195).
ConvertDroppingSchema(mcpTool) ==
  [name |-> mcpTool.name,
   description |-> Nullish(mcpTool.description, ""),
   parametersJsonSchema |-> EmptyObjectSchema]
convertMcpToolToFunctionDeclaration(mcpTool) ==
  [name |-> mcpTool.name,
   description |-> Nullish(mcpTool.description, ""),
   parametersJsonSchema |-> Nullish(mcpTool.inputSchema, EmptyObjectSchema)]

\* new McpDeclarativeTool(browserManager, name, description, schema, bus)
\* (109-130, 169-175): name is also the display name.
McpDeclarativeTool(mcpTool) ==
  [name |-> mcpTool.name,
   displayName |-> mcpTool.name,
   description |-> Nullish(mcpTool.description, ""),
   parameterSchema |->
     convertMcpToolToFunctionDeclaration(mcpTool).parametersJsonSchema]

\* `mcpTools.map(...)` (167-176).
MapToolsMerging(ts) ==
  LET us == IF Len(ts) > 1 /\ ts[1].name = ts[2].name THEN Tail(ts) ELSE ts
  IN  [i \in 1..Len(us) |-> McpDeclarativeTool(us[i])]
MapTools(ts) == [i \in 1..Len(ts) |-> McpDeclarativeTool(ts[i])]

\* createMcpDeclarativeTools on the catalog getDiscoveredTools returned.
createMcpDeclarativeTools ==
  /\ \E ts \in SeqUpTo(Descriptors, MaxTools) :
       /\ mcpTools' = ts
       /\ declTools' = MapTools(ts)
  /\ UNCHANGED <<lifeVars, launches, footerVars, rawResponse, callResult,
               toolResult, bridgeVars>>

SpecWrap == Init /\ [][createMcpDeclarativeTools]_vars

\* ------------------------------------------------------------------------
\* McpToolInvocation.execute on a response (mcpToolWrapper.ts:64-93) through
\* BrowserManager.toResult (browserAgentDefinition.ts:296-317)

\* Longest content array of a response.
MaxContent == 3

\* Content items of a response: `type` as the server sent it, `text` optional.
Items == [type : {"text", "image", "resource"}, text : Opt({"", "a", "b"})]

\* raw.isError as the server sent it: missing, a boolean, or a value that is
\* truthy without being `true`.
Flags == {"undefined", "true", "false", "truthy"}

Responses == [content : Opt(SeqUpTo(Items, MaxContent)), isError : Flags]

\* `item.type === 'image' ? 'image' : 'text'` (308).
ItemTypeKept(item) == item.type
ItemType(item) == IF item.type = "image" THEN "image" ELSE "text"

\* `raw.isError === true` (315).
IsErrorTruthy(flag) == flag \in {"true", "truthy"}
IsError(flag) == flag = "true"

\* toResult (296-317); data and mimeType play no part in execute.
toResult(raw) ==
  [content |->
     IF raw.content = <<>> THEN <<>>
     ELSE <<[i \in 1..Len(raw.content[1]) |->
               [type |-> ItemType(raw.content[1][i]),
                text |-> raw.content[1][i].text]]>>,
   isError |-> IsError(raw.isError)]

\* Array.prototype.join (79).
RECURSIVE Join(_, _)
Join(strs, sep) ==
  IF strs = <<>> THEN ""
  ELSE IF Len(strs) = 1 THEN strs[1]
  ELSE strs[1] \o sep \o Join(Tail(strs), sep)

\* `c.type === 'text' && c.text` (77): an absent or empty text is falsy.
IsTextContent(c) == c.type = "text" /\ c.text # <<>> /\ c.text[1] # ""

\* `textContent || 'Tool executed successfully.'` (91-92).
OrPlaceholderNever(textContent) == textContent
OrPlaceholder(textContent) ==
  IF textContent = "" THEN "Tool executed successfully." ELSE textContent

\* The part of execute after callTool has resolved (73-93).
ExecuteResult(result) ==
  LET kept == IF result.content = <<>> THEN <<>>
              ELSE SelectSeq(result.content[1], IsTextContent)
      textContent == Join([i \in 1..Len(kept) |-> kept[i].text[1]], "\n")
  IN  IF result.isError
        THEN [llmContent |-> "Error: " \o textContent,
              returnDisplay |-> "Error: " \o textContent,
              error |-> <<[message |-> textContent]>>]
        ELSE [llmContent |-> OrPlaceholder(textContent),
              returnDisplay |-> OrPlaceholder(textContent),
              error |-> <<>>]

\* execute when client.callTool resolves with rawResponse.
Execute ==
  /\ toolResult = <<>>
  /\ callResult' = <<toResult(rawResponse)>>
  /\ toolResult' = <<ExecuteResult(toResult(rawResponse))>>
  /\ UNCHANGED <<lifeVars, launches, footerVars, mcpTools, declTools,
                 rawResponse, bridgeVars>>

InitExec == InitManager /\ rawResponse \in Responses /\ InitDialog(<<>>)

SpecExec == InitExec /\ [][Execute]_vars

\* ------------------------------------------------------------------------
\* Several bridges side by side: createBrowserAgentDefinition
\* (browserAgentFactory.ts:41-79), the tools it returns
\* (mcpToolWrapper.ts:35-46, 109-142) and cleanupBrowserAgent.  Each manager
\* is taken as connected with the same catalog ServerTools; what is
\* followed is which manager a tool sends its request on.

\* The exported BrowserAgentDefinition (browserAgentDefinition.ts:80-148) is
\* a function of config; as an object it has no own enumerable property,
\* and `name` is the non-enumerable name of the function.
BrowserAgentDefinition ==
  [typeof |-> "function", name |-> "BrowserAgentDefinition", own |-> <<>>]

\* `...value` in an object literal (72): the own enumerable properties.
OwnEnumerable(value) == value.own

\* The manager a tool keeps and hands to its invocations (114, 136, 170).
CapturedManagerShared(m) == 1
CapturedManager(m) == m

\* The main registry after a bridge was built: the factory puts the tools
\* into toolConfig only (63-76).
SharedRegistryWith(registry, tools) ==
  registry \cup {tools[i].name : i \in DOMAIN tools}
SharedRegistryAfter(registry, tools) == registry

\* createBrowserAgentDefinition for manager m, a manager it constructs (54):
\* one new tool object per discovered tool, then the definition (71-76).
BuildDefinition(m) ==
  /\ created[m] = <<>>
  /\ LET first == Len(ServerTools) * Cardinality({n \in Managers : created[n] # <<>>})
         tools == [i \in 1..Len(ServerTools) |->
                     [id |-> first + i,
                      browserManager |-> CapturedManager(m),
                      name |-> ServerTools[i]]]
         definition == [toolConfig |-> [tools |-> tools]]
                         @@ OwnEnumerable(BrowserAgentDefinition)
     IN  /\ created' = [created EXCEPT
              ![m] = <<[definition |-> definition, browserManager |-> m]>>]
         /\ sharedRegistry' = SharedRegistryAfter(sharedRegistry, tools)
  /\ UNCHANGED <<lifeVars, launches, footerVars, dataVars, sent, invoked,
                 cleaned, confirmation>>

\* The tools of the definition built for m.
ToolsOf(m) == created[m][1].definition.toolConfig.tools

\* build(params).execute(signal) on the i-th tool of m's definition: the
\* request goes out on the Client of the manager the tool keeps (135-140,
\* 67-71).
InvokeTool(m, i) ==
  /\ created[m] # <<>>
  /\ i \in DOMAIN ToolsOf(m)
  /\ invoked[ToolsOf(m)[i].id] < MaxCalls
  /\ invoked' = [invoked EXCEPT ![ToolsOf(m)[i].id] = @ + 1]
  /\ sent' = [sent EXCEPT ![ToolsOf(m)[i].browserManager] = @ + 1]
  /\ UNCHANGED <<lifeVars, launches, footerVars, dataVars, created, cleaned,
                 sharedRegistry, confirmation>>

\* cleanupBrowserAgent on the manager returned for m (86-97).
CleanupBridge(m) ==
  /\ created[m] # <<>>
  /\ cleaned' = cleaned \cup {created[m][1].browserManager}
  /\ UNCHANGED <<lifeVars, launches, footerVars, dataVars, created, sent,
                 invoked, sharedRegistry, confirmation>>

NextBridges ==
  \E m \in Managers :
    \/ BuildDefinition(m)
    \/ \E i \in 1..Len(ServerTools) : InvokeTool(m, i)
    \/ CleanupBridge(m)

SpecBridges == Init /\ [][NextBridges]_vars

\* shouldConfirmExecute (mcpToolWrapper.ts:58-62): `return false`, whatever
\* the signal; "confirm" stands for confirmation details.
ConfirmUnlessAborted(params, abortSignal) ==
  IF abortSignal = "aborted" THEN "false" ELSE "confirm"
shouldConfirmExecute(params, abortSignal) == "false"

\* build(params).shouldConfirmExecute(signal) on the i-th tool of m's
\* definition.
ShouldConfirmExecute(m, i, params, abortSignal) ==
  /\ created[m] # <<>>
  /\ i \in DOMAIN ToolsOf(m)
  /\ confirmation' = <<[tool |-> ToolsOf(m)[i].id,
                        params |-> params,
                        signal |-> abortSignal,
                        returned |-> shouldConfirmExecute(params, abortSignal)]>>
  /\ UNCHANGED <<lifeVars, launches, footerVars, dataVars, created, sent,
                 invoked, cleaned, sharedRegistry>>

NextConfirm ==
  \E m \in Managers :
    \/ BuildDefinition(m)
    \/ CleanupBridge(m)
    \/ \E i \in 1..Len(ServerTools), params \in {"{}", "{uid}"},
          abortSignal \in {"clear", "aborted"} :
         ShouldConfirmExecute(m, i, params, abortSignal)

SpecConfirm == Init /\ [][NextConfirm]_vars

\* ------------------------------------------------------------------------
\* The launch arguments connectMcp builds (browserAgentDefinition.ts:387-415)

\* Launches followed.
MaxLaunches == 2

CHROME_DEVTOOLS_MCP_VERSION == "0.13.0"

\* browserConfig.customConfig: headless is a boolean or missing,
\* chromeProfilePath a string or missing.
CustomConfigs ==
  [headless : {"undefined", "true", "false"},
   chromeProfilePath : Opt({"", "/tmp/p1", "/tmp/p2"})]

\* `if (browserConfig.customConfig.headless)` (397-399).
HeadlessArgs(customConfig) ==
  IF customConfig.headless = "true" THEN <<"--headless">> ELSE <<>>

\* `if (browserConfig.customConfig.chromeProfilePath)` (400-405): a missing
\* or empty path is falsy.
ProfileArgs(customConfig) ==
  IF customConfig.chromeProfilePath # <<>> /\ customConfig.chromeProfilePath[1] # ""
    THEN <<"--profile-path", customConfig.chromeProfilePath[1]>>
    ELSE <<>>

\* The two pushes in the order of the code (397-405).
OptionalArgsProfileFirst(customConfig) ==
  ProfileArgs(customConfig) \o HeadlessArgs(customConfig)
OptionalArgs(customConfig) ==
  HeadlessArgs(customConfig) \o ProfileArgs(customConfig)

\* mcpArgs as handed to StdioClientTransport (388-393, 414).
McpArgs(customConfig) ==
  <<"-y", "chrome-devtools-mcp@" \o CHROME_DEVTOOLS_MCP_VERSION,
    "--isolated", "--experimental-vision">> \o OptionalArgs(customConfig)

\* connectMcp reads the configuration and builds the arguments.
BuildMcpArgs ==
  /\ Len(launches) < MaxLaunches
  /\ \E customConfig \in CustomConfigs :
       launches' = Append(launches, [customConfig |-> customConfig,
                                     mcpArgs |-> McpArgs(customConfig)])
  /\ UNCHANGED <<lifeVars, dataVars, bridgeVars, footerVars>>

SpecLaunch == Init /\ [][BuildMcpArgs]_vars

\* ------------------------------------------------------------------------
\* footerConfigReducer (footerItems.ts:182-263) and the dialog that
\* dispatches to it (265-385).  Indices count from 0 as in the source.

\* maxItemsToShow (269): the list shows as many rows as ALL_ITEMS has
\* entries (ten and ten in the source).
maxItemsToShow == NumItems

\* useFuzzyList: with an empty query every item, otherwise the items the
\* query matches, in list order.  The query taken is "c".
SearchQueries == {"", "c"}
MatchingIds(q) ==
  IF q = "" THEN VALID_IDS
  ELSE VALID_IDS \cap {"cwd", "git-branch", "context-remaining",
                       "code-changes", "token-count"}

\* filteredItems (280-299), as the list of their keys.
FilteredItems(st, q) == SelectSeq(st.orderedIds, LAMBDA id : id \in MatchingIds(q))

\* array[i]: the element, or undefined (<<>>) outside the array.
ItemAt(items, i) == IF i + 1 \in DOMAIN items THEN <<items[i + 1]>> ELSE <<>>

\* Array.prototype.indexOf: the first index, -1 when absent.
IndexOf(s, x) ==
  IF \E i \in DOMAIN s : s[i] = x
    THEN (CHOOSE i \in DOMAIN s : s[i] = x /\ \A j \in 1..(i - 1) : s[j] # x) - 1
    ELSE -1

\* The destructuring swap of two entries of the copied array (233-237).
Swap(s, i, j) == [s EXCEPT ![i + 1] = s[j + 1], ![j + 1] = s[i + 1]]

\* The toggled copy of selectedIds (248-253).
Toggle(selected, key) ==
  IF key \in selected THEN selected \ {key} ELSE selected \cup {key}

MaxOf(a, b) == IF a > b THEN a ELSE b

footerConfigReducer(st, action) ==
  CASE action.type = "MOVE_UP" ->
         LET filteredCount == action.filteredCount
             maxToShow == action.maxToShow
             totalSlots == filteredCount + 2
             newIndex == IF st.activeIndex > 0 THEN st.activeIndex - 1
                         ELSE totalSlots - 1
             newOffset ==
               IF newIndex < filteredCount
                 THEN IF newIndex = filteredCount - 1
                        THEN MaxOf(0, filteredCount - maxToShow)
                        ELSE IF newIndex < st.scrollOffset THEN newIndex
                        ELSE st.scrollOffset
                 ELSE st.scrollOffset
         IN  [st EXCEPT !.activeIndex = newIndex, !.scrollOffset = newOffset]
    [] action.type = "MOVE_DOWN" ->
         LET filteredCount == action.filteredCount
             maxToShow == action.maxToShow
             totalSlots == filteredCount + 2
             newIndex == IF st.activeIndex < totalSlots - 1
                           THEN st.activeIndex + 1 ELSE 0
             newOffset ==
               IF newIndex = 0 THEN 0
               ELSE IF newIndex < filteredCount
                       /\ newIndex >= st.scrollOffset + maxToShow
                 THEN newIndex - maxToShow + 1
               ELSE st.scrollOffset
         IN  [st EXCEPT !.activeIndex = newIndex, !.scrollOffset = newOffset]
    [] action.type \in {"MOVE_LEFT", "MOVE_RIGHT"} ->
         IF action.searchQuery # "" THEN st
         ELSE
           LET direction == IF action.type = "MOVE_LEFT" THEN -1 ELSE 1
               currentItem == ItemAt(action.filteredItems, st.activeIndex)
           IN  IF currentItem = <<>> THEN st
               ELSE
                 LET currentId == currentItem[1]
                     currentIndex == IndexOf(st.orderedIds, currentId)
                     newIndex == currentIndex + direction
                 IN  IF newIndex < 0 \/ newIndex >= Len(st.orderedIds) THEN st
                     ELSE [st EXCEPT
                             !.orderedIds = Swap(@, currentIndex, newIndex),
                             !.activeIndex = newIndex]
    [] action.type = "TOGGLE_ITEM" ->
         LET isSystemFocused == st.activeIndex >= Len(action.filteredItems)
             item == ItemAt(action.filteredItems, st.activeIndex)
         IN  IF isSystemFocused THEN st
             ELSE IF item = <<>> THEN st
             ELSE [st EXCEPT !.selectedIds = Toggle(@, item[1])]
    [] action.type = "SET_STATE" -> action.payload @@ st
    [] action.type = "RESET_INDEX" ->
         [st EXCEPT !.activeIndex = 0, !.scrollOffset = 0]
    [] OTHER -> st

\* dispatch: the reducer runs on the current state.
Dispatch(action) ==
  /\ state' = footerConfigReducer(state, action)
  /\ UNCHANGED <<searchQuery, lifeVars, dataVars, bridgeVars, launches>>

filteredItems == FilteredItems(state, searchQuery)

\* The focus is on "reset to defaults" or on "show labels" (316-317).
isResetFocused == state.activeIndex = Len(filteredItems) + 1
isShowLabelsFocused == state.activeIndex = Len(filteredItems)

\* The key handler (336-385), one action per key.
MoveUp ==
  Dispatch([type |-> "MOVE_UP", filteredCount |-> Len(filteredItems),
            maxToShow |-> maxItemsToShow])

MoveDown ==
  Dispatch([type |-> "MOVE_DOWN", filteredCount |-> Len(filteredItems),
            maxToShow |-> maxItemsToShow])

MoveLeft ==
  Dispatch([type |-> "MOVE_LEFT", searchQuery |-> searchQuery,
            filteredItems |-> filteredItems])

MoveRight ==
  Dispatch([type |-> "MOVE_RIGHT", searchQuery |-> searchQuery,
            filteredItems |-> filteredItems])

\* Return on a list item (371-378).
ToggleItem ==
  /\ ~isResetFocused
  /\ ~isShowLabelsFocused
  /\ Dispatch([type |-> "TOGGLE_ITEM", filteredItems |-> filteredItems])

\* Return on "reset to defaults": handleResetToDefaults (319-329) resolves
\* the state from the settings, which the save effect (302-309) keeps at
\* the selected ids in their order.
ResetToDefaults ==
  /\ isResetFocused
  /\ LET finalItems == SelectSeq(state.orderedIds,
                                 LAMBDA id : id \in state.selectedIds)
     IN  Dispatch([type |-> "SET_STATE",
                   payload |-> [orderedIds |-> resolveFooterState(finalItems).orderedIds,
                                selectedIds |-> resolveFooterState(finalItems).selectedIds,
                                activeIndex |-> 0,
                                scrollOffset |-> 0]])

\* The search query changes; the effect on searchQuery dispatches
\* RESET_INDEX (312-314).
SearchChanged(q) ==
  /\ q # searchQuery
  /\ searchQuery' = q
  /\ state' = footerConfigReducer(state, [type |-> "RESET_INDEX"])
  /\ UNCHANGED <<lifeVars, dataVars, bridgeVars, launches>>

NextFooter ==
  \/ MoveUp
  \/ MoveDown
  \/ MoveLeft
  \/ MoveRight
  \/ ToggleItem
  \/ ResetToDefaults
  \/ \E q \in SearchQueries : SearchChanged(q)

SpecFooter == InitFooter /\ [][NextFooter]_vars

\* ========================================================================
\* Properties

\* p's method returns in this step.
Returns(p, o) ==
  /\ proc[p].pc # "done"
  /\ proc'[p].pc = "done"
  /\ proc'[p].op = o

\* The manager holds a Client whose handshake and discovery have completed.
Ready ==
  /\ rawMcpClient # 0
  /\ clientState[rawMcpClient] = "connected"
  /\ discoveredTools = ServerTools

Running == {k \in Conns : transportState[k] = "running"}

\* C1: on a manager on which close() is never called, however many callers
\* run ensureConnection (or any method that connects) concurrently, at most
\* one transport is spawned and at most one handshake is started.
C1_AtMostOneSpawn ==
  /\ numConn <= 1
  /\ Cardinality({k \in Conns : clientState[k] # "none"}) <= 1
  /\ Cardinality({k \in Conns : transportState[k] # "none"}) <= 1

\* C1 witness: one caller is inside the handshake it started, another has
\* called ensureConnection meanwhile and returned.
C1_Witness ==
  \E p, q \in Procs :
    /\ p # q
    /\ proc[p].pc = "awaitConnect"
    /\ proc[q].op = "ensure"
    /\ proc[q].pc = "done"
    /\ numConn = 1

\* C2: ensureConnection never returns successfully before the handshake and
\* the initial discovery of the attempt have completed.
C2_ReturnsOnlyWhenReady ==
  [][\A p \in Procs :
       (Returns(p, "ensure") /\ proc'[p].result = "ok") => Ready']_vars

\* C3: once a close() has completed, no later step spawns a subprocess and
\* every ensureConnection that returns afterwards fails.
C3_NoResurrection ==
  [][closeDone =>
       /\ numConn' = numConn
       /\ \A p \in Procs : Returns(p, "ensure") => proc'[p].result = "err"]_vars

\* C4: once the handshake of the Client the manager holds has failed, every
\* ensureConnection, getDiscoveredTools and callTool that returns fails.
C4_FailedConnectionStaysFailed ==
  [][(rawMcpClient # 0 /\ clientState[rawMcpClient] = "failed") =>
       \A p \in Procs :
         (Returns(p, "ensure") \/ Returns(p, "tools") \/ Returns(p, "call"))
           => proc'[p].result \notin {"ok", "Success"}]_vars

\* C5: a tool call invoked with an already aborted signal ends at once as
\* Cancelled; it issues no request, constructs no Client or transport and
\* leaves the manager and every connection as they were.
C5_PreAbortedCallIsCancelled ==
  [][\A p \in Procs :
       (proc[p].pc = "idle" /\ proc'[p].op = "call" /\ proc'[p].sig = "aborted")
         => /\ proc'[p].pc = "done"
            /\ proc'[p].result = "Cancelled"
            /\ proc'[p].cp = "none"
            /\ UNCHANGED <<mgrVars, libVars>>]_vars

\* C5 witness: such a call has ended as Cancelled on a manager that holds
\* no Client, where any other call would have started a connect.
C5_Witness ==
  \E p \in Procs :
    /\ proc[p].op = "call"
    /\ proc[p].sig = "aborted"
    /\ proc[p].pc = "done"
    /\ proc[p].result = "Cancelled"
    /\ rawMcpClient = 0

\* C6: a call whose signal fired after the call was made and before the
\* remote call completed ends as Cancelled.
C6_AbortInFlightIsCancelled ==
  \A p \in Procs :
    (proc[p].op = "call" /\ proc[p].pc = "done" /\ proc[p].sig = "firedBefore")
      => proc[p].result = "Cancelled"

\* C7: a call whose remote call answered successfully while the signal had
\* not fired ends as Success, also when the signal fires before the caller
\* has resumed.
C7_RemoteWinsYieldsSuccess ==
  \A p \in Procs :
    (/\ proc[p].op = "call"
     /\ proc[p].pc = "done"
     /\ proc[p].cp = "ok"
     /\ proc[p].sig \in {"none", "clear", "firedAfter"})
      => proc[p].result = "Success"

\* C7 witness: the remote answered, then the signal fired, and the call
\* has returned Success.
C7_Witness ==
  \E p \in Procs :
    /\ proc[p].op = "call"
    /\ proc[p].pc = "done"
    /\ proc[p].cp = "ok"
    /\ proc[p].sig = "firedAfter"
    /\ proc[p].result = "Success"

\* C8: a call that has returned has exactly one outcome, the one of the
\* first settlement of what it awaited; nothing that happens afterwards,
\* in particular a remote answer or error arriving after a cancellation,
\* changes the outcome or the settlement.
C8_ExactlyOneOutcome ==
  /\ [](\A p \in Procs :
          (proc[p].op = "call" /\ proc[p].pc = "done") =>
            /\ proc[p].result \in {"Success", "Failure", "Cancelled"}
            /\ proc[p].winner # "pending" => proc[p].result = Outcome(proc[p].winner))
  /\ [][\A p \in Procs :
          (proc[p].pc = "done" /\ proc'[p].pc = "done") =>
            /\ proc'[p].result = proc[p].result
            /\ proc'[p].winner = proc[p].winner]_vars

\* C8 witness: a call has returned Cancelled and its remote call has
\* settled afterwards.
C8_Witness ==
  \E p \in Procs :
    /\ proc[p].op = "call"
    /\ proc[p].pc = "done"
    /\ proc[p].result = "Cancelled"
    /\ proc[p].winner = "cancelled"
    /\ proc[p].cp \in {"ok", "remoteErr", "rejected"}

\* C9: at most one transport spawned by the manager is running.
C9_AtMostOneLiveTransport == Cardinality(Running) <= 1

\* C10: close() closes the Client before the transport, never rejects, and
\* when it completes the manager holds no Client, no transport and an
\* empty catalog.
C10_OrderedBestEffortClose ==
  /\ [](\A k \in Conns : transportCloses[k] > 0 => clientCloses[k] > 0)
  /\ [][\A p \in Procs :
          Returns(p, "close") =>
            /\ proc'[p].result = "ok"
            /\ rawMcpClient' = 0
            /\ mcpTransport' = 0
            /\ discoveredTools' = <<>>]_vars

\* C11: with calls made one after the other, a close() made after a
\* completed close() that left nothing held returns without error and
\* changes nothing, and no Client and no transport is ever closed twice.
C11_CloseIdempotent ==
  /\ [](\A k \in Conns : clientCloses[k] <= 1 /\ transportCloses[k] <= 1)
  /\ [][\A p \in Procs :
          (closeDone /\ proc[p].pc = "idle" /\ proc'[p].op = "close"
             /\ (\A k \in Conns : clientState[k] \in {"none", "closed"}))
            => /\ proc'[p].pc = "done"
               /\ proc'[p].result = "ok"
               /\ UNCHANGED <<mgrVars, libVars>>]_vars

\* C11 witness: a Client and its transport have been closed by one close(),
\* and a second close() has returned having closed nothing.
C11_Witness ==
  \E p \in Procs, k \in Conns :
    /\ clientCloses[k] = 1
    /\ transportCloses[k] = 1
    /\ transportState[k] = "closed"
    /\ proc[p].op = "close"
    /\ proc[p].pc = "done"
    /\ proc[p].cl = 0
    /\ rawMcpClient = 0

\* C12: a getDiscoveredTools that returns a catalog returns the one a
\* completed discovery stored, never the empty catalog the manager starts
\* with.
C12_CatalogOnlyAfterDiscovery ==
  \A p \in Procs :
    (proc[p].op = "tools" /\ proc[p].pc = "done" /\ proc[p].result = "ok")
      => proc[p].got = ServerTools

\* C13: createMcpDeclarativeTools returns as many tools as it was given
\* descriptors, in the same order, the i-th with the name of the i-th
\* descriptor and with its description and input schema when it has them;
\* equal names are kept apart.
C13_OneToolPerDescriptor ==
  /\ Len(declTools) = Len(mcpTools)
  /\ \A i \in 1..Len(mcpTools) :
       /\ i \in DOMAIN declTools
       /\ declTools[i].name = mcpTools[i].name
       /\ mcpTools[i].description # <<>>
            => declTools[i].description = mcpTools[i].description[1]
       /\ mcpTools[i].inputSchema # <<>>
            => declTools[i].parameterSchema = mcpTools[i].inputSchema[1]

\* C13 witness: two descriptors of the same name and different
\* descriptions have been wrapped into two tools.
C13_Witness ==
  /\ Len(mcpTools) = 2
  /\ mcpTools[1].name = mcpTools[2].name
  /\ mcpTools[1].description # mcpTools[2].description
  /\ Len(declTools) = 2
  /\ declTools[1].description # declTools[2].description

\* C14: a tool wrapped from a descriptor without description has the empty
\* string as description, one wrapped from a descriptor without input
\* schema has the empty-object schema; what is present is passed through.
C14_DefaultsForMissingFields ==
  \A i \in DOMAIN declTools :
    /\ i \in DOMAIN mcpTools
    /\ declTools[i].description =
         (IF mcpTools[i].description = <<>> THEN ""
          ELSE mcpTools[i].description[1])
    /\ declTools[i].parameterSchema =
         (IF mcpTools[i].inputSchema = <<>>
            THEN [type |-> "object", properties |-> {}]
            ELSE mcpTools[i].inputSchema[1])

\* C14 witness: a descriptor without description and schema and one with
\* both have been wrapped.
C14_Witness ==
  \E i, j \in DOMAIN declTools :
    /\ mcpTools[i].description = <<>>
    /\ mcpTools[i].inputSchema = <<>>
    /\ declTools[i].description = ""
    /\ mcpTools[j].inputSchema = <<ClickSchema>>
    /\ declTools[j].parameterSchema = ClickSchema

\* The content array of the response execute ran on, <<>> when it has none.
RemoteContent ==
  IF rawResponse.content = <<>> THEN <<>> ELSE rawResponse.content[1]

\* The text of a content item, "" when it has none.
TextOf(c) == IF c.text = <<>> THEN "" ELSE c.text[1]

HasText(c) == TextOf(c) # ""

\* The newline-join of the texts of a sequence of content items.
JoinTexts(items) == Join([i \in 1..Len(items) |-> TextOf(items[i])], "\n")

IsRemoteText(c) == c.type = "text"

IsNotRemoteImageWithText(c) == c.type # "image" /\ HasText(c)

Placeholder == "Tool executed successfully."

\* C15 as stated: for a non-error response the payload is the newline-join
\* of the text of exactly the items the server typed text (the placeholder
\* standing in for an empty join).
C15_PayloadJoinsRemoteTextItems ==
  (toolResult # <<>> /\ rawResponse.isError # "true")
    => LET joined == JoinTexts(SelectSeq(RemoteContent, IsRemoteText))
       IN  toolResult[1].llmContent =
             (IF joined = "" THEN Placeholder ELSE joined)

\* C15 amended: for a non-error response the payload is the newline-join,
\* in source order, of the non-empty text of exactly the items whose remote
\* type is not image; image items and items without text contribute
\* nothing, and an empty join gives the placeholder.
C15_PayloadJoinsNonImageText ==
  (toolResult # <<>> /\ rawResponse.isError # "true")
    => LET joined == JoinTexts(SelectSeq(RemoteContent, IsNotRemoteImageWithText))
       IN  /\ toolResult[1].error = <<>>
           /\ toolResult[1].llmContent =
                (IF joined = "" THEN Placeholder ELSE joined)

\* C15 witness: a non-error response of a text item, an image item with a
\* text field and an item of another type has given the payload "a\nb".
C15_Witness ==
  /\ toolResult # <<>>
  /\ rawResponse.isError = "undefined"
  /\ Len(RemoteContent) = 3
  /\ RemoteContent[1] = [type |-> "text", text |-> <<"a">>]
  /\ RemoteContent[2] = [type |-> "image", text |-> <<"b">>]
  /\ RemoteContent[3] = [type |-> "resource", text |-> <<"b">>]
  /\ toolResult[1].llmContent = "a\nb"

\* C16 as stated: an error-flagged response gives a result with error set
\* whose detail is the newline-join of the items the server typed text; a
\* response whose flag is not exactly true gives a result without error.
C16_ErrorDetailJoinsRemoteTextItems ==
  toolResult # <<>>
    => IF rawResponse.isError = "true"
         THEN /\ toolResult[1].error # <<>>
              /\ toolResult[1].error[1].message =
                   JoinTexts(SelectSeq(RemoteContent, IsRemoteText))
         ELSE toolResult[1].error = <<>>

\* C16 amended: an error-flagged response gives a result with error set
\* whose detail is the newline-join of the non-empty text of the items
\* whose remote type is not image; a response whose flag is absent or not
\* exactly true gives a result without error.
C16_ErrorDetailJoinsNonImageText ==
  toolResult # <<>>
    => IF rawResponse.isError = "true"
         THEN /\ toolResult[1].error # <<>>
              /\ toolResult[1].error[1].message =
                   JoinTexts(SelectSeq(RemoteContent, IsNotRemoteImageWithText))
              /\ toolResult[1].llmContent =
                   "Error: " \o toolResult[1].error[1].message
         ELSE toolResult[1].error = <<>>

\* C16 witness: an error-flagged response with two texts around an empty
\* one has given a failure with detail "a\nb".
C16_Witness ==
  /\ toolResult # <<>>
  /\ rawResponse.isError = "true"
  /\ Len(RemoteContent) = 3
  /\ TextOf(RemoteContent[1]) = "a"
  /\ RemoteContent[2] = [type |-> "text", text |-> <<"">>]
  /\ TextOf(RemoteContent[3]) = "b"
  /\ toolResult[1].error = <<[message |-> "a\nb"]>>

C18_ExecuteNeverThrows ==
  \A p \in Procs :
    (proc[p].op = "call" /\ proc[p].pc = "done")
      => /\ proc[p].result \in {"Success", "Failure", "Cancelled"}
         /\ proc[p].winner \in {"remoteErr", "rejected"}
              => proc[p].result = "Failure"
         /\ proc[p].winner = "cancelled" => proc[p].result = "Cancelled"
         /\ (proc[p].cp = "none" /\ proc[p].sig # "aborted")
              => proc[p].result = "Failure"

\* C18 witness: one call has returned Failure because its connection
\* attempt failed, another because the remote call was rejected.
C18_Witness ==
  \E p, q \in Procs :
    /\ proc[p].op = "call" /\ proc[p].pc = "done"
    /\ proc[p].result = "Failure" /\ proc[p].cp = "none"
    /\ clientState[proc[p].cl] = "failed"
    /\ proc[q].op = "call" /\ proc[q].pc = "done"
    /\ proc[q].result = "Failure" /\ proc[q].winner = "rejected"

\* A call of q on the Client the manager holds has ended in failure or
\* cancellation.
EndedBadly(q) ==
  /\ proc[q].op = "call"
  /\ proc[q].pc = "done"
  /\ proc[q].cl = rawMcpClient
  /\ proc[q].cp # "none"
  /\ proc[q].result \in {"Failure", "Cancelled"}

\* C19: while a call runs on a connected manager, and when it ends in a
\* timeout, cancellation, transport error or remote error, the manager
\* keeps its Client, transport and catalog; a callTool made after such an
\* end is dispatched on the same Client without a new connection.
C19_FailedCallKeepsConnection ==
  /\ [][\A p \in Procs :
          (Ready /\ proc[p].op = "call" /\ proc[p].cl = rawMcpClient)
            => UNCHANGED mgrVars /\ Ready']_vars
  /\ [][\A p, q \in Procs :
          (Ready /\ EndedBadly(q) /\ proc[p].pc = "idle" /\ proc'[p].op = "call")
            => /\ UNCHANGED <<mgrVars, numConn>>
               /\ \/ proc'[p].pc = "gotClient" /\ proc'[p].cl = proc[q].cl
                  \/ proc'[p].pc = "done" /\ proc'[p].sig = "aborted"]_vars

\* C19 witness: on a connected manager one call has been rejected (a
\* transport error) and a later one is about to be sent on the same
\* Client.
C19_Witness ==
  \E p, q \in Procs :
    /\ Ready
    /\ EndedBadly(q) /\ proc[q].winner = "rejected"
    /\ proc[p].op = "call" /\ proc[p].pc = "gotClient"
    /\ proc[p].cl = proc[q].cl

\* C20: once close() has completed on a manager that had connected, a
\* callTool neither spawns a subprocess nor sends a request: it ends at
\* once without a result of success.
C20_NoCallAfterClose ==
  [][\A p \in Procs :
       (closeDone /\ numConn > 0 /\ rawMcpClient = 0
          /\ proc[p].pc = "idle" /\ proc'[p].op = "call")
         => /\ numConn' = numConn
            /\ proc'[p].pc = "done"
            /\ proc'[p].result \in {"Failure", "Cancelled"}]_vars

\* C21: cleanupBrowserAgent closes the manager (it asks the Client the
\* manager holds to close, or else the transport it holds) and always
\* returns normally, also when close() rejects and also when called again
\* after an earlier teardown.
C21_CleanupAlwaysResolves ==
  /\ [](\A p \in Procs :
          (proc[p].op = "cleanup" /\ proc[p].pc = "done")
            => proc[p].result = "ok")
  /\ [][\A p \in Procs :
          (proc[p].pc = "idle" /\ proc'[p].op = "cleanup" /\ ~proc'[p].cerr)
            => /\ rawMcpClient # 0
                    => clientCloses'[rawMcpClient] = clientCloses[rawMcpClient] + 1
               /\ (rawMcpClient = 0 /\ mcpTransport # 0)
                    => transportCloses'[mcpTransport] =
                         transportCloses[mcpTransport] + 1
               /\ (rawMcpClient = 0 /\ mcpTransport = 0)
                    => proc'[p].pc = "done" /\ discoveredTools' = <<>>]_vars

\* C21 witness: after a teardown that closed Client and transport, a
\* cleanupBrowserAgent whose close() rejected has returned normally.
C21_Witness ==
  \E p \in Procs, k \in Conns :
    /\ clientCloses[k] = 1 /\ transportCloses[k] = 1
    /\ rawMcpClient = 0
    /\ proc[p].op = "cleanup" /\ proc[p].pc = "done"
    /\ proc[p].cl = 0 /\ proc[p].cerr
    /\ proc[p].result = "ok"

\* How often the tools of a sequence have been run, all together.
RECURSIVE TimesInvoked(_)
TimesInvoked(tools) ==
  IF tools = <<>> THEN 0
  ELSE invoked[Head(tools).id] + TimesInvoked(Tail(tools))

\* The tool objects of the definition built for m.
ToolIds(m) ==
  IF created[m] = <<>> THEN {}
  ELSE {ToolsOf(m)[i].id : i \in DOMAIN ToolsOf(m)}

\* C22: every tool of the definition built for a manager sends only on
\* that manager: the requests a manager has received are exactly the runs
\* of its own tools, a step that changes what one manager received or was
\* given is a step on that manager's own bridge, and two definitions share
\* no tool object.
C22_ToolsDispatchToOwnManager ==
  /\ [](\A a \in Managers :
          /\ created[a] # <<>>
               => /\ created[a][1].browserManager = a
                  /\ \A i \in DOMAIN ToolsOf(a) : ToolsOf(a)[i].browserManager = a
                  /\ sent[a] = TimesInvoked(ToolsOf(a))
          /\ created[a] = <<>> => sent[a] = 0
          /\ \A b \in Managers \ {a} : ToolIds(a) \cap ToolIds(b) = {})
  /\ [][\A a \in Managers, i \in 1..Len(ServerTools) :
          (created[a] # <<>> /\ invoked'[ToolsOf(a)[i].id] # invoked[ToolsOf(a)[i].id])
            => \A b \in Managers \ {a} :
                 /\ sent'[b] = sent[b]
                 /\ created'[b] = created[b]
                 /\ (b \in cleaned') = (b \in cleaned)]_vars

\* C22 witness: two definitions with the same tool names have been built
\* and a tool of the second built was run while the first has received
\* nothing.
C22_Witness ==
  \E a, b \in Managers :
    /\ a # b
    /\ created[a] # <<>> /\ created[b] # <<>>
    /\ ToolsOf(a)[1].name = ToolsOf(b)[1].name
    /\ ToolsOf(a)[1].id < ToolsOf(b)[1].id
    /\ invoked[ToolsOf(b)[1].id] = 1
    /\ sent[b] = 1 /\ sent[a] = 0

\* C23: no step of building a definition, running its tools or cleaning up
\* changes the main registry, and no wrapped tool is in it: the tools are
\* held by the value createBrowserAgentDefinition returned and nowhere
\* else.
C23_SharedRegistryUntouched ==
  /\ [][sharedRegistry' = sharedRegistry]_vars
  /\ [](\A m \in Managers :
          created[m] # <<>>
            => \A i \in DOMAIN ToolsOf(m) : ToolsOf(m)[i].name \notin sharedRegistry)

\* C23 witness: a definition has been built, one of its tools run and its
\* manager cleaned up, and the main registry holds none of its tools.
C23_Witness ==
  \E m \in Managers :
    /\ created[m] # <<>>
    /\ invoked[ToolsOf(m)[1].id] > 0
    /\ m \in cleaned
    /\ sharedRegistry \cap {ToolsOf(m)[i].name : i \in DOMAIN ToolsOf(m)} = {}

\* C24: the definition createBrowserAgentDefinition returns has the name of
\* the base definition, kind 'local', inputConfig, outputConfig and
\* promptConfig, has the wrapped tools as toolConfig.tools, and comes with
\* the manager that was created.
C24_DefinitionCarriesBaseFields ==
  \A m \in Managers :
    created[m] # <<>>
      => LET definition == created[m][1].definition
         IN  /\ created[m][1].browserManager = m
             /\ "toolConfig" \in DOMAIN definition
             /\ Len(definition.toolConfig.tools) = Len(ServerTools)
             /\ {"name", "kind", "inputConfig", "outputConfig", "promptConfig"}
                  \subseteq DOMAIN definition
             /\ definition.name = BrowserAgentDefinition.name
             /\ definition.kind = "local"

\* C25: shouldConfirmExecute returns false for every wrapped tool, every
\* arguments and every state of the abort signal, and changes nothing
\* else.
C25_NeverAsksConfirmation ==
  /\ [](confirmation # <<>> => confirmation[1].returned = "false")
  /\ [][confirmation' # confirmation
          => UNCHANGED <<created, sent, invoked, cleaned, sharedRegistry>>]_vars

\* C25 witness: shouldConfirmExecute has returned false for a tool built
\* with arguments and asked with a signal that is not aborted, on a manager
\* that was cleaned up.
C25_Witness ==
  /\ confirmation # <<>>
  /\ confirmation[1].signal = "clear"
  /\ confirmation[1].params = "{uid}"
  /\ confirmation[1].returned = "false"
  /\ \E m \in cleaned : confirmation[1].tool \in ToolIds(m)

\* --headless when headless is set, then --profile-path and the path when
\* a profile path is set.
ExpectedOptionalArgs(customConfig) ==
  (IF customConfig.headless = "true" THEN <<"--headless">> ELSE <<>>)
    \o (IF customConfig.chromeProfilePath \in {<<>>, <<"">>} THEN <<>>
        ELSE <<"--profile-path", customConfig.chromeProfilePath[1]>>)

\* C26 as stated: the argument list is the pinned package, --isolated and
\* --experimental-vision, then --headless exactly when headless is set, then
\* --profile-path and the path exactly when a profile path is set.
C26_ArgsArePackageFlagsOptions ==
  \A i \in DOMAIN launches :
    launches[i].mcpArgs =
      <<"chrome-devtools-mcp@0.13.0", "--isolated", "--experimental-vision">>
        \o ExpectedOptionalArgs(launches[i].customConfig)

\* C26 amended: the argument list is -y, the pinned package, --isolated and
\* --experimental-vision in that order, then --headless exactly when
\* headless is true, then --profile-path and the path exactly when the
\* profile path is a non-empty string; equal configurations give equal
\* lists.
C26_ArgsAreYesPackageFlagsOptions ==
  /\ \A i \in DOMAIN launches :
       launches[i].mcpArgs =
         <<"-y", "chrome-devtools-mcp@0.13.0", "--isolated",
           "--experimental-vision">>
           \o ExpectedOptionalArgs(launches[i].customConfig)
  /\ \A i, j \in DOMAIN launches :
       launches[i].customConfig = launches[j].customConfig
         => launches[i].mcpArgs = launches[j].mcpArgs

\* C26 witness: a launch with headless and a profile path and a launch with
\* neither (headless false, empty path) have been built.
C26_Witness ==
  \E i, j \in DOMAIN launches :
    /\ launches[i].customConfig =
         [headless |-> "true", chromeProfilePath |-> <<"/tmp/p1">>]
    /\ Len(launches[i].mcpArgs) = 7
    /\ launches[i].mcpArgs[5] = "--headless"
    /\ launches[j].customConfig =
         [headless |-> "false", chromeProfilePath |-> <<"">>]
    /\ Len(launches[j].mcpArgs) = 4

\* C27: callTool issues its request only on a Client whose handshake and
\* discovery have completed, also when another caller's connect is still
\* in flight.
C27_CallOnlyAfterConnected ==
  [][\A p \in Procs :
       (proc[p].cp = "none" /\ proc'[p].cp = "pending")
         => /\ clientState[proc[p].cl] = "connected"
            /\ discoveredTools = ServerTools]_vars

\* C28: createBrowserAgentDefinition returns tools only after the handshake
\* and the discovery of its manager have completed, and then exactly the
\* discovered tools; when connecting or discovery fails it rejects and
\* returns no tool; no tool is run before it has returned.
C28_ConnectDiscoverWrap ==
  /\ [](\A p \in Procs :
          (proc[p].op = "create" /\ proc[p].pc = "done")
            => IF proc[p].result = "ok"
                 THEN proc[p].got = ServerTools
                 ELSE proc[p].result = "err" /\ proc[p].got = <<>>)
  /\ [][\A p \in Procs :
          Returns(p, "create")
            => (proc'[p].result = "ok") = Ready]_vars
  /\ [](proc[User] # IdleProc => Created)

\* C28 witness: the factory has returned the discovered tools and one of
\* them has been run with success.
C28_Witness ==
  /\ Created
  /\ proc[Factory].got = ServerTools
  /\ proc[User].op = "call"
  /\ proc[User].pc = "done"
  /\ proc[User].result = "Success"
  /\ proc[User].cl = 1

\* C28 witness of the failing side: discovery was rejected after a
\* completed handshake and the factory has rejected.
C28_WitnessRejected ==
  /\ proc[Factory].op = "create"
  /\ proc[Factory].pc = "done"
  /\ proc[Factory].result = "err"
  /\ clientState[1] = "connected"

\* C29: ensureConnection on a connected manager returns at once: no
\* subprocess, no handshake, no discovery request, and Client, transport
\* and catalog stay as they are, each time it is called.
C29_EnsureConnectionNoOp ==
  [][\A p \in Procs :
       (Ready /\ proc[p].pc = "idle" /\ proc'[p].op = "ensure")
         => /\ proc'[p].pc = "done"
            /\ proc'[p].result = "ok"
            /\ UNCHANGED <<mgrVars, libVars>>
            /\ Ready']_vars

\* C29 witness: on a connected manager two ensureConnection calls have
\* returned without connecting, and one subprocess was spawned in all.
C29_Witness ==
  /\ Ready
  /\ numConn = 1
  /\ \A p \in Procs :
       /\ proc[p].op = "ensure"
       /\ proc[p].pc = "done"
       /\ proc[p].result = "ok"
       /\ proc[p].cl = 0

\* C30: when callTool with a signal has returned, by success, remote
\* error, timeout or cancellation, its abort listener is no longer on the
\* signal.
C30_ListenerRemoved ==
  \A p \in Procs :
    (proc[p].op = "call" /\ proc[p].pc = "done") => ~proc[p].lst

\* C30 witness: a call with a signal that never fired has returned the
\* remote answer, and its listener is gone.
C30_Witness ==
  \E p \in Procs :
    /\ proc[p].op = "call"
    /\ proc[p].pc = "done"
    /\ proc[p].sig = "clear"
    /\ proc[p].winner = "ok"
    /\ ~proc[p].lst

\* C31: toResult gives a content sequence of the length and order of the
\* remote content array, each item tagged image when the remote type is
\* image and text otherwise, with its text kept; a response without a
\* content array gives no content; isError is true exactly when the remote
\* flag is `true`.
C31_ToResultNormalizes ==
  callResult # <<>>
    => /\ (callResult[1].content = <<>>) = (rawResponse.content = <<>>)
       /\ callResult[1].content # <<>>
            => /\ Len(callResult[1].content[1]) = Len(RemoteContent)
               /\ \A i \in DOMAIN RemoteContent :
                    /\ callResult[1].content[1][i].type \in {"text", "image"}
                    /\ (callResult[1].content[1][i].type = "image")
                         = (RemoteContent[i].type = "image")
                    /\ callResult[1].content[1][i].text = RemoteContent[i].text
       /\ callResult[1].isError = (rawResponse.isError = "true")

\* C31 witness: a response of an image, an item of another type and a text
\* item, with a flag that is truthy but not `true`, has been normalized to
\* image, text, text without error.
C31_Witness ==
  /\ callResult # <<>>
  /\ rawResponse.isError = "truthy"
  /\ Len(RemoteContent) = 3
  /\ RemoteContent[1].type = "image"
  /\ RemoteContent[2] = [type |-> "resource", text |-> <<"a">>]
  /\ RemoteContent[3] = [type |-> "text", text |-> <<"b">>]
  /\ callResult[1].content[1][1].type = "image"
  /\ callResult[1].content[1][2] = [type |-> "text", text |-> <<"a">>]
  /\ callResult[1].content[1][3] = [type |-> "text", text |-> <<"b">>]
  /\ ~callResult[1].isError

\* C32: the manager does not serialize calls: a callTool that has its
\* Client can send its request whatever requests of other callers are
\* pending, any pending request on a connected Client can be answered and
\* any settled call can return, whatever the others do; a call that went
\* through the remote call returns the outcome of its own request or of
\* its own signal.
C32_CallsNotSerialized ==
  \A p \in Procs :
    /\ proc[p].pc = "gotClient" => ENABLED CallIssue(p)
    /\ (proc[p].cp = "pending" /\ clientState[proc[p].cl] = "connected")
         => ENABLED RemoteAnswer(p, "ok")
    /\ (proc[p].pc \in {"awaitCall", "awaitRace"} /\ proc[p].winner # "pending")
         => ENABLED CallResume(p)
    /\ (proc[p].op = "call" /\ proc[p].pc = "done" /\ proc[p].cp # "none")
         => /\ proc[p].result = Outcome(proc[p].winner)
            /\ proc[p].winner \in {proc[p].cp, "cancelled"}
            /\ proc[p].winner = "cancelled" => IsAborted(proc[p].sig)

\* C32 witness: on a connected manager the requests of two callers are
\* pending on the same Client at once.
C32_Witness ==
  /\ Ready
  /\ \A p \in Procs :
       /\ proc[p].op = "call"
       /\ proc[p].pc \in {"awaitCall", "awaitRace"}
       /\ proc[p].cp = "pending"
       /\ proc[p].cl = rawMcpClient

\* C33: every request is sent with the timeout of 60 seconds, with or
\* without a signal, and a call whose request timed out returns Failure,
\* not Cancelled.
C33_TimeoutOnEveryCall ==
  \A p \in Procs :
    /\ proc[p].cp # "none" => proc[p].timeout = 60000
    /\ proc[p].cp = "pending" => ENABLED RemoteAnswer(p, "timeout")
    /\ (proc[p].op = "call" /\ proc[p].pc = "done" /\ proc[p].winner = "timeout")
         => proc[p].result = "Failure"

\* C33 witness: a call without signal and a call with a signal that never
\* fired have both timed out and returned Failure.
C33_Witness ==
  \E p, q \in Procs :
    /\ proc[p].op = "call" /\ proc[p].pc = "done" /\ proc[p].sig = "none"
    /\ proc[p].winner = "timeout" /\ proc[p].result = "Failure"
    /\ proc[q].op = "call" /\ proc[q].pc = "done" /\ proc[q].sig = "clear"
    /\ proc[q].winner = "timeout" /\ proc[q].result = "Failure"

\* C34: every subprocess that is live is the one the manager's transport
\* field refers to: no interleaving of close() with ensureConnection() or
\* callTool() leaves a live subprocess whose handle the manager dropped.
C34_NoLiveTransportDropped == \A k \in Running : mcpTransport = k

\* C35: a close() that ran while a connect or discovery was in flight
\* leaves the catalog empty once both have settled, no late discovery
\* response fills it again: a manager that a completed close() left
\* without transport has an empty catalog (connectMcp stores a transport
\* before it awaits, so a catalog stored while none is held comes from a
\* discovery that was in flight when the close() completed).
C35_NoCatalogAfterOverlappingClose ==
  (closeDone /\ mcpTransport = 0) => discoveredTools = <<>>

\* C36: with close() calls running at the same time, no Client and no
\* transport is closed more than once, and every close() that completes
\* returns without error.
C36_ConcurrentCloseOnce ==
  /\ \A k \in Conns : clientCloses[k] <= 1 /\ transportCloses[k] <= 1
  /\ \A p \in Procs :
       (proc[p].op = "close" /\ proc[p].pc = "done") => proc[p].result = "ok"

\* C37: when createBrowserAgentDefinition has failed after its transport
\* was spawned, no subprocess of its manager is live; stated for the
\* failure that does not depend on what the library does with a failed
\* handshake: the handshake succeeded and discovery failed.
C37_FailedCreateLeavesNoSubprocess ==
  (proc[Factory].op = "create" /\ proc[Factory].pc = "done"
     /\ proc[Factory].result = "err"
     /\ clientState[proc[Factory].cl] = "connected")
    => Running = {}

\* C38: every invocation that was dispatched delivers an outcome, when the
\* remote side settles what it was sent: also when the signal fires, when
\* close() runs while the invocation is in flight, and when the invocation
\* was dispatched while the connection was being established.
C38_EveryCallDelivers ==
  \A p \in Procs :
    (proc[p].op = "call") ~> (proc[p].op = "call" /\ proc[p].pc = "done")

\* C38 witness: an invocation whose request was pending when close() closed
\* its Client has delivered Failure, and the close() is still running.
C38_Witness ==
  /\ proc[1].op = "call" /\ proc[1].pc = "done"
  /\ proc[1].cp = "rejected" /\ proc[1].result = "Failure"
  /\ clientState[proc[1].cl] = "closed"
  /\ proc[2].op = "close" /\ proc[2].pc = "awaitTransportClose"

\* C39: in the footer dialog the focus index stays within
\* 0..filteredCount+1, and when it is on a list item that item is inside
\* the visible window scrollOffset..scrollOffset+maxToShow-1.
C39_FocusInRangeAndVisible ==
  LET filteredCount == Len(filteredItems)
  IN  /\ state.activeIndex \in 0..(filteredCount + 1)
      /\ state.activeIndex < filteredCount
           => /\ state.scrollOffset <= state.activeIndex
              /\ state.activeIndex <= state.scrollOffset + maxItemsToShow - 1

\* What the claim allows a MOVE_LEFT (direction -1) or MOVE_RIGHT
\* (direction 1) to do: nothing; or swap two adjacent entries of orderedIds
\* and put the focus on the place the entry moved in that direction went
\* to, which holds the item that had the focus; selectedIds and the scroll
\* offset stay; and nothing at all with a search query, with the focus on
\* no item, or with the focused entry at the end of the list it is moved
\* towards.
MoveFrame(direction) ==
  LET o == state.orderedIds
      i == state.activeIndex
      focused == ItemAt(filteredItems, i)
  IN  /\ state'.selectedIds = state.selectedIds
      /\ state'.scrollOffset = state.scrollOffset
      /\ \/ state' = state
         \/ \E k \in 1..(Len(o) - 1) :
              /\ state'.orderedIds = [o EXCEPT ![k] = o[k + 1], ![k + 1] = o[k]]
              /\ state'.activeIndex = IF direction = 1 THEN k ELSE k - 1
              /\ focused = <<state'.orderedIds[state'.activeIndex + 1]>>
      /\ (searchQuery # "" \/ focused = <<>> \/ i + direction \notin 0..(Len(o) - 1))
           => state' = state

\* What the claim allows a TOGGLE_ITEM to do: the focused item enters or
\* leaves selectedIds, nothing else changes.
ToggleFrame ==
  LET focused == ItemAt(filteredItems, state.activeIndex)
  IN  /\ focused # <<>>
      /\ state'.selectedIds \in {state.selectedIds \cup {focused[1]},
                                 state.selectedIds \ {focused[1]}}
      /\ state'.selectedIds # state.selectedIds
      /\ state' = [state EXCEPT !.selectedIds = state'.selectedIds]

\* C40: MOVE_LEFT and MOVE_RIGHT only swap two adjacent entries of
\* orderedIds, so that it stays a permutation of what it was, leave
\* selectedIds alone, move the focus with the moved item, and return the
\* state unchanged with a search query or at the list boundary; TOGGLE_ITEM
\* changes the membership of the focused item in selectedIds and nothing
\* else.
C40_MoveSwapsToggleFlips ==
  [][/\ MoveLeft => MoveFrame(-1)
     /\ MoveRight => MoveFrame(1)
     /\ ToggleItem => ToggleFrame]_vars

====
